---- MODULE Spec2Model ----
(***************************************************************************)
(* Model of jira-query-watch (petr-muller/ota): the diff engine            *)
(* (internal/jirawatch/compare), the snapshot store                        *)
(* (internal/jirawatch/storage), the orchestrating service                 *)
(* (internal/jirawatch/service) and the command layer                      *)
(* (cmd/jira-query-watch).                                                 *)
(*                                                                         *)
(* Strings that the code only moves around (names, JQL, summaries) are     *)
(* opaque TLA+ strings.  A label is a sequence of characters, because      *)
(* compareIssues renders label lists with strings.Join.  A time.Time is    *)
(* the instant it denotes, counted in half seconds since the zero time, so *)
(* that Format(time.RFC3339) (whole seconds) is not the identity.          *)
(* A file is the sequence of YAML lines the store wrote, one line per      *)
(* header field and one per issue.                                         *)
(***************************************************************************)
EXTENDS Naturals, Integers, Sequences, FiniteSets, TLC

\* ------------------------------------------------------------------ bounds
MaxLen == 2          \* longest issue list handed to CompareQueries
MaxClock == 3        \* number of time.Now() readings in one behaviour
ConcMaxClock == 2    \* the same with two processes at work
DaySeconds == 2      \* seconds in a day of the model's calendar

\* ------------------------------------------------------ program constants
MaxRows == 15        \* rows the table shows at a time
NoError == "nil"     \* a nil error
ZeroTime == 0        \* the zero time.Time
SubSecond == 2       \* instants per second

\* ------------------------------------------------------------ storage types
\* A []string is nil or a (possibly empty) sequence.
NilLabels == [isNil |-> TRUE, elems |-> <<>>]

MkLabels(s) == [isNil |-> FALSE, elems |-> s]

Issue(k, sm, co, stt, lu, la, asg) ==
    [Key |-> k, Summary |-> sm, Component |-> co, Status |-> stt,
     LastUpdated |-> lu, Labels |-> la, Assignee |-> asg]

ZeroIssue == Issue("", "", "", "", ZeroTime, NilLabels, "")

IssueChange(f, old, new) == [Field |-> f, OldValue |-> old, NewValue |-> new]

\* Rendered text: a tagged value, so that texts of different fields compare.
Text(s) == [str |-> s, chars |-> <<>>, secs |-> 0]

TimeText(n) == [str |-> "", chars |-> <<>>, secs |-> n]

CharText(cs) == [str |-> "", chars |-> cs, secs |-> 0]

\* --------------------------------------------------------------- rendering
\* time.Time.Format(time.RFC3339): the instant to the second.
FormatRFC3339(t) == TimeText(t \div SubSecond)

\* strings.Join(labels, ", ")
RECURSIVE JoinFrom(_, _)
JoinFrom(elems, i) ==
    IF i > Len(elems) THEN <<>>
    ELSE IF i = Len(elems) THEN elems[i]
    ELSE elems[i] \o <<",", " ">> \o JoinFrom(elems, i + 1)

StringsJoin(labels) == CharText(JoinFrom(labels.elems, 1))

\* reflect.DeepEqual on two []string: a nil slice differs from an empty one.
DeepEqualLabels(a, b) == a.isNil = b.isNil /\ a.elems = b.elems

\* ------------------------------------------------------------- diff engine
\* for _, issue := range list { m[issue.Key] = issue }: the last issue of a
\* key wins.
KeysOf(list) == {list[i].Key : i \in 1..Len(list)}

IssueMap(list) ==
    [k \in KeysOf(list) |->
        list[CHOOSE i \in 1..Len(list) :
                /\ list[i].Key = k
                /\ \A j \in 1..Len(list) : list[j].Key = k => j <= i]]

compareIssues(current, previous) ==
    (IF current.Summary # previous.Summary
       THEN <<IssueChange("summary", Text(previous.Summary), Text(current.Summary))>>
       ELSE <<>>)
    \o
    (IF current.Component # previous.Component
       THEN <<IssueChange("component", Text(previous.Component), Text(current.Component))>>
       ELSE <<>>)
    \o
    (IF current.Status # previous.Status
       THEN <<IssueChange("status", Text(previous.Status), Text(current.Status))>>
       ELSE <<>>)
    \o
    (IF current.Assignee # previous.Assignee
       THEN <<IssueChange("assignee", Text(previous.Assignee), Text(current.Assignee))>>
       ELSE <<>>)
    \o
    (IF current.LastUpdated # previous.LastUpdated
       THEN <<IssueChange("last_updated", FormatRFC3339(previous.LastUpdated),
                          FormatRFC3339(current.LastUpdated))>>
       ELSE <<>>)
    \o
    (IF ~DeepEqualLabels(current.Labels, previous.Labels)
       THEN <<IssueChange("labels", StringsJoin(previous.Labels),
                          StringsJoin(current.Labels))>>
       ELSE <<>>)

\* The exists check of the first loop dropped.
NewIssueSetUnchecked(current, previous) ==
    LET currentMap == IssueMap(current)
    IN {currentMap[k] : k \in DOMAIN currentMap}

\* The sets the three loops of CompareQueries collect.
NewIssueSet(current, previous) ==
    LET currentMap == IssueMap(current)
        previousMap == IssueMap(previous)
    IN {currentMap[k] : k \in (DOMAIN currentMap) \ (DOMAIN previousMap)}

\* The second loop dropped.
RemovedIssueSetNone(current, previous) == {}

\* The exists check of the second loop dropped.
RemovedIssueSetUnchecked(current, previous) ==
    LET previousMap == IssueMap(previous)
    IN {previousMap[k] : k \in DOMAIN previousMap}

RemovedIssueSet(current, previous) ==
    LET currentMap == IssueMap(current)
        previousMap == IssueMap(previous)
    IN {previousMap[k] : k \in (DOMAIN previousMap) \ (DOMAIN currentMap)}

\* The len(changes) > 0 check of the third loop dropped.
ChangedIssueMapUnfiltered(current, previous) ==
    LET currentMap == IssueMap(current)
        previousMap == IssueMap(previous)
        both == (DOMAIN currentMap) \cap (DOMAIN previousMap)
    IN [k \in both |-> compareIssues(currentMap[k], previousMap[k])]

ChangedIssueMap(current, previous) ==
    LET currentMap == IssueMap(current)
        previousMap == IssueMap(previous)
        both == (DOMAIN currentMap) \cap (DOMAIN previousMap)
        changed == {k \in both : Len(compareIssues(currentMap[k], previousMap[k])) > 0}
    IN [k \in changed |-> compareIssues(currentMap[k], previousMap[k])]

\* Go iterates a map in an unspecified order: every enumeration of the set
\* is a possible slice.
Orderings(S) ==
    {s \in [1..Cardinality(S) -> S] : \A x \in S : \E i \in 1..Cardinality(S) : s[i] = x}

\* All results CompareQueries(current, previous) can return (Query unset).
CompareQueries(current, previous) ==
    {[NewIssues |-> n, RemovedIssues |-> r,
      ChangedIssues |-> ChangedIssueMap(current, previous)] :
        n \in Orderings(NewIssueSet(current, previous)),
        r \in Orderings(RemovedIssueSet(current, previous))}

EmptyResult == [NewIssues |-> <<>>, RemovedIssues |-> <<>>, ChangedIssues |-> <<>>]

HasChanges(result) ==
    Len(result.NewIssues) > 0 \/ Len(result.RemovedIssues) > 0
        \/ DOMAIN result.ChangedIssues # {}

\* ------------------------------------------------------------------ store
QueryInfo(n, q, t, is) == [Name |-> n, JQL |-> q, LastFetched |-> t, Issues |-> is]

ZeroQueryInfo == QueryInfo("", "", ZeroTime, <<>>)

\* One line of a stored YAML document.  kind is the YAML key of a header
\* field, "issue" for one element of the issues list, or "torn" for a line
\* whose write was cut short.
Line(kind, str, num, issue) == [kind |-> kind, str |-> str, num |-> num, issue |-> issue]

TornLine == Line("torn", "", 0, ZeroIssue)

\* yaml.v3 writes a nil []string as "labels: []".
MarshalIssue(i) ==
    [i EXCEPT !.Labels = IF i.Labels.isNil THEN MkLabels(<<>>) ELSE i.Labels]

\* yaml.Marshal(query): the fields in declaration order.
\* The last_fetched key left out of the document.
MarshalNoStamp(q) ==
    <<Line("name", q.Name, 0, ZeroIssue),
      Line("jql", q.JQL, 0, ZeroIssue)>>
    \o [i \in 1..Len(q.Issues) |-> Line("issue", "", 0, MarshalIssue(q.Issues[i]))]

Marshal(q) ==
    <<Line("name", q.Name, 0, ZeroIssue),
      Line("jql", q.JQL, 0, ZeroIssue),
      Line("last_fetched", "", q.LastFetched, ZeroIssue)>>
    \o [i \in 1..Len(q.Issues) |-> Line("issue", "", 0, MarshalIssue(q.Issues[i]))]

RECURSIVE IssuesFrom(_, _)
IssuesFrom(data, i) ==
    IF i > Len(data) THEN <<>>
    ELSE IF data[i].kind = "issue" THEN <<data[i].issue>> \o IssuesFrom(data, i + 1)
    ELSE IssuesFrom(data, i + 1)

LinesOf(data, kind) == {i \in 1..Len(data) : data[i].kind = kind}

\* yaml.Unmarshal(data, &query): fields that the document lacks keep their
\* zero value (an empty document decodes without error); a torn line or a
\* repeated mapping key is an error.
Unmarshal(data) ==
    LET bad == \/ LinesOf(data, "torn") # {}
               \/ \E k \in {"name", "jql", "last_fetched"} : Cardinality(LinesOf(data, k)) > 1
        strOf(k) == IF LinesOf(data, k) = {} THEN ""
                    ELSE data[CHOOSE i \in LinesOf(data, k) : TRUE].str
        numOf(k) == IF LinesOf(data, k) = {} THEN ZeroTime
                    ELSE data[CHOOSE i \in LinesOf(data, k) : TRUE].num
    IN IF bad THEN [err |-> "yaml", q |-> ZeroQueryInfo]
       ELSE [err |-> NoError,
             q |-> QueryInfo(strOf("name"), strOf("jql"), numOf("last_fetched"),
                             IssuesFrom(data, 1))]

\* A path of the data directory: no file, or a file with its lines.
NoFile == [exists |-> FALSE, data |-> <<>>]

File(data) == [exists |-> TRUE, data |-> data]

\* The open without O_TRUNC.
OpenNoTrunc(f) == File(f.data)

\* os.OpenFile(name, O_WRONLY|O_CREATE|O_TRUNC, perm), the first half of
\* os.WriteFile: the file exists afterwards and is empty.
OpenTrunc(f) == File(<<>>)

\* f.Write(data) at offset 0 of the open file: bytes beyond the written
\* ones stay.
WriteAt0(f, data) == File(data \o SubSeq(f.data, Len(data) + 1, Len(f.data)))

\* os.Remove: the errno and the directory afterwards.
OsRemoveErr(f) == IF f.exists THEN NoError ELSE "ENOENT"

OsRemove(fs, name) == [fs EXCEPT ![name] = NoFile]

\* A document that does not parse taken for a missing one.
LoadQueryLenient(fs, name) ==
    IF ~fs[name].exists THEN [nil |-> TRUE, q |-> ZeroQueryInfo, err |-> NoError]
    ELSE LET u == Unmarshal(fs[name].data)
         IN IF u.err # NoError
              THEN [nil |-> TRUE, q |-> ZeroQueryInfo, err |-> NoError]
              ELSE [nil |-> FALSE, q |-> u.q, err |-> NoError]

\* The error of yaml.Unmarshal dropped: the zero record is returned.
LoadQueryZeroOnError(fs, name) ==
    IF ~fs[name].exists THEN [nil |-> TRUE, q |-> ZeroQueryInfo, err |-> NoError]
    ELSE [nil |-> FALSE, q |-> Unmarshal(fs[name].data).q, err |-> NoError]

\* Store.LoadQuery: (nil, nil) for a missing file, (nil, err) for a file
\* that does not parse, (&query, nil) otherwise.
LoadQuery(fs, name) ==
    IF ~fs[name].exists THEN [nil |-> TRUE, q |-> ZeroQueryInfo, err |-> NoError]
    ELSE LET u == Unmarshal(fs[name].data)
         IN IF u.err # NoError
              THEN [nil |-> TRUE, q |-> ZeroQueryInfo, err |-> "failed to unmarshal query"]
              ELSE [nil |-> FALSE, q |-> u.q, err |-> NoError]

\* Store.QueryExists: os.Stat succeeded.
QueryExists(fs, name) == fs[name].exists

\* query.Description: the zero value, QueryInfo having no such field.
RecordDescription(q) == IF "Description" \in DOMAIN q THEN q.Description ELSE ""

\* item := QueryListItem{Name, Description, JQL, LastFetched, IssueCount}
QueryListItem(q) ==
    [Name |-> q.Name, Description |-> RecordDescription(q), JQL |-> q.JQL,
     LastFetched |-> q.LastFetched, IssueCount |-> Len(q.Issues)]

\* os.ReadDir returns the entries sorted by file name: ".yaml", "n1.yaml",
\* "n2.yaml".
DirOrder == <<"", "n1", "n2">>

\* entries, err := os.ReadDir(s.dataDir): the names of the files there are.
RECURSIVE ReadDirFrom(_, _)
ReadDirFrom(fs, i) ==
    IF i > Len(DirOrder) THEN <<>>
    ELSE (IF fs[DirOrder[i]].exists THEN <<DirOrder[i]>> ELSE <<>>) \o ReadDirFrom(fs, i + 1)

ReadDir(fs) == ReadDirFrom(fs, 1)

RECURSIVE ListFrom(_, _)
ListFrom(fs, i) ==
    IF i > Len(DirOrder) THEN <<>>
    ELSE LET name == DirOrder[i]
             query == LoadQuery(fs, name)
         IN IF ~fs[name].exists \/ query.err # NoError
              THEN ListFrom(fs, i + 1)
              ELSE <<QueryListItem(query.q)>> \o ListFrom(fs, i + 1)

\* A return from inside the loop: the first entry only.
ListQueriesDetailedFirst(fs) ==
    LET all == ListFrom(fs, 1)
    IN IF all = <<>> THEN all ELSE <<all[1]>>

\* Store.ListQueriesDetailed: one item for each *.yaml entry that loads;
\* entries that do not load are skipped.
ListQueriesDetailed(fs) == ListFrom(fs, 1)

\* The os.IsNotExist exemption dropped.
DeleteQueryErrStrict(removeErr) ==
    IF removeErr # NoError THEN "failed to delete query file" ELSE NoError

\* Store.DeleteQuery: err != nil && !os.IsNotExist(err)
DeleteQueryErr(removeErr) ==
    IF removeErr # NoError /\ removeErr # "ENOENT"
      THEN "failed to delete query file" ELSE NoError

\* ---------------------------------------------------------------- tracker
\* Issues as Client.convertIssue builds them: Labels is make([]string, n),
\* never nil.
LabelA == <<"a">>

LabelB == <<"b">>

LabelAB == <<"a", ",", " ", "b">>

X1 == Issue("X-1", "s1", "c1", "New", 2, MkLabels(<<>>), "")

X1b == Issue("X-1", "s1", "c1", "In Progress", 3, MkLabels(<<>>), "")

X2 == Issue("X-2", "s2", "c1", "New", 4, MkLabels(<<LabelA, LabelB>>), "bob")

\* What one search of the tracker may return: the tracker changes between
\* calls, and the keys of one answer are distinct.
TrackerLists == {<<>>, <<X1>>, <<X1b, X2>>}

Names == {"n1", "n2"}

\* The files a command can address: Inspect saves under the name it read
\* from the document, which is "" when the document has no name line.
FileNames == Names \cup {""}

JQLs == {"q1", "q2"}

\* The values of the --description flag of the watch command.
Descriptions == {"", "d1"}

Procs == {1, 2}

\* -------------------------------------------------------------------- paths
\* The store's root directory (dataDir), an absolute path, as its elements.
DataDir == <<"data", "jira-queries">>

\* Names a caller can pass, and the elements a path separator splits them into.
PathNames == {"n1", "n2", "./n1", "../n1", "sub/n1", "sub/../n2"}

Segments(name) ==
    CASE name = "n1" -> <<"n1">>
      [] name = "n2" -> <<"n2">>
      [] name = "./n1" -> <<".", "n1">>
      [] name = "../n1" -> <<"..", "n1">>
      [] name = "sub/n1" -> <<"sub", "n1">>
      [] name = "sub/../n2" -> <<"sub", "..", "n2">>

\* filepath.Clean on the directory elements of an absolute path: "." is
\* dropped, ".." removes the element before it and is dropped at the root.
RECURSIVE CleanFrom(_, _, _)
CleanFrom(elems, i, acc) ==
    IF i > Len(elems) THEN acc
    ELSE IF elems[i] = "." THEN CleanFrom(elems, i + 1, acc)
    ELSE IF elems[i] = ".."
      THEN CleanFrom(elems, i + 1, IF acc = <<>> THEN acc ELSE SubSeq(acc, 1, Len(acc) - 1))
    ELSE CleanFrom(elems, i + 1, Append(acc, elems[i]))

\* A path: the directory and the file name without its ".yaml".
Path(dir, base) == [dir |-> dir, base |-> base]

NoPath == Path(<<>>, "")

\* Store.queryFilePath: filepath.Join(s.dataDir, name + ".yaml").  The last
\* element ends in ".yaml", so it is never "." or "..".
queryFilePath(name) ==
    LET segs == Segments(name)
    IN Path(CleanFrom(DataDir \o SubSeq(segs, 1, Len(segs) - 1), 1, <<>>), segs[Len(segs)])

AllPaths == {queryFilePath(n) : n \in PathNames}

\* The directories there are after ensureDataDir (os.MkdirAll(dataDir)).
Directories == {SubSeq(DataDir, 1, k) : k \in 0..Len(DataDir)}

\* ------------------------------------------------------------------ service
\* LastFetched left at its zero value.
NewQueryInfoUnstamped(name, jql, now, issues) == QueryInfo(name, jql, ZeroTime, issues)

\* queryInfo := storage.QueryInfo{Name, JQL, LastFetched: time.Now(), Issues}
NewQueryInfo(name, jql, now, issues) == QueryInfo(name, jql, now, issues)

\* The override of result.Query.LastFetched left out.
DisplayResultFresh(result, queryInfo, lastFetched) ==
    [NewIssues |-> result.NewIssues, RemovedIssues |-> result.RemovedIssues,
     ChangedIssues |-> result.ChangedIssues, Query |-> queryInfo]

\* result.Query = queryInfo; result.Query.LastFetched = lastFetched
DisplayResult(result, queryInfo, lastFetched) ==
    [NewIssues |-> result.NewIssues, RemovedIssues |-> result.RemovedIssues,
     ChangedIssues |-> result.ChangedIssues,
     Query |-> [queryInfo EXCEPT !.LastFetched = lastFetched]]

NilResult ==
    [NewIssues |-> <<>>, RemovedIssues |-> <<>>, ChangedIssues |-> <<>>,
     Query |-> ZeroQueryInfo]

\* The nil check left out.
InspectNeverNotFound(existing) == FALSE

\* if existingQuery == nil { return nil, fmt.Errorf("query '%s' not found") }
InspectNotFound(existing) == existing.nil

\* previousIssues / lastFetched of WatchQuery: zero values unless a record
\* was loaded.
PreviousIssues(existing) == IF existing.nil THEN <<>> ELSE existing.q.Issues

PreviousFetched(existing) == IF existing.nil THEN ZeroTime ELSE existing.q.LastFetched

\* ---------------------------------------------------------------- presenter
\* issue.LastUpdated.Format("2006-01-02"): the instant to the day.
FormatDate(t) == [day |-> (t \div SubSecond) \div DaySeconds]

\* Model.issueToRow: key, component, status, day, joined labels, assignee.
issueToRow(issue) ==
    <<Text(issue.Key), Text(issue.Component), Text(issue.Status),
      FormatDate(issue.LastUpdated), StringsJoin(issue.Labels), Text(issue.Assignee)>>

\* The permutations of a list.
ListPermutations(list) ==
    {[i \in 1..Len(list) |-> list[f[i]]] :
        f \in {g \in [1..Len(list) -> 1..Len(list)] :
                  \A i, j \in 1..Len(list) : g[i] = g[j] => i = j}}

\* The comparison turned round: earlier instants first.
SortByLastUpdatedAscending(issues) ==
    {s \in ListPermutations(issues) :
        \A i, j \in 1..Len(s) : i < j => s[i].LastUpdated <= s[j].LastUpdated}

\* sort.Slice(allIssues, LastUpdated.After): some permutation with later
\* instants first; the sort is not stable, so equal instants come in any
\* order.
SortByLastUpdated(issues) ==
    {s \in ListPermutations(issues) :
        \A i, j \in 1..Len(s) : i < j => s[i].LastUpdated >= s[j].LastUpdated}

\* Model.updateTableSize: the height of the table once the terminal size is
\* known.
TableHeight(m) ==
    IF m.width > 0 /\ m.height > 0
      THEN LET h == (IF Len(m.displayedIssues) < MaxRows
                       THEN Len(m.displayedIssues) ELSE MaxRows) + 1
           IN IF h < 2 THEN 2 ELSE h
      ELSE m.tableHeight

\* The issues of the result sorted in place, without the copy.
updateTableInPlace(m) ==
    {[m EXCEPT !.displayedIssues = allIssues \o m.queryResult.RemovedIssues,
               !.queryResult.Query.Issues = allIssues,
               !.rows = [i \in 1..Len(allIssues) |-> issueToRow(allIssues[i])]
                        \o [i \in 1..Len(m.queryResult.RemovedIssues) |->
                               issueToRow(m.queryResult.RemovedIssues[i])]] :
        allIssues \in SortByLastUpdated(m.queryResult.Query.Issues)}

\* The rows of the removed issues put first, the displayed issues as before.
updateTableRemovedFirst(m) ==
    {[m EXCEPT !.displayedIssues = allIssues \o m.queryResult.RemovedIssues,
               !.rows = [i \in 1..Len(m.queryResult.RemovedIssues) |->
                               issueToRow(m.queryResult.RemovedIssues[i])]
                        \o [i \in 1..Len(allIssues) |-> issueToRow(allIssues[i])]] :
        allIssues \in SortByLastUpdated(m.queryResult.Query.Issues)}

\* Model.updateTable: the current issues sorted, then the removed issues.
updateTable(m) ==
    {[m EXCEPT !.displayedIssues = allIssues \o m.queryResult.RemovedIssues,
               !.rows = [i \in 1..Len(allIssues) |-> issueToRow(allIssues[i])]
                        \o [i \in 1..Len(m.queryResult.RemovedIssues) |->
                               issueToRow(m.queryResult.RemovedIssues[i])]] :
        allIssues \in SortByLastUpdated(m.queryResult.Query.Issues)}

\* The Model before NewModel fills it: table.New has one row of height and
\* the cursor on row 0.
ZeroModel ==
    [queryResult |-> NilResult, queryName |-> "", lastFetched |-> ZeroTime,
     width |-> 0, height |-> 0, tableHeight |-> 1, cursor |-> 0,
     displayedIssues |-> <<>>, rows |-> <<>>]

\* ui.NewModel(queryName, queryResult, lastFetched)
NewModel(queryName, queryResult, lastFetched) ==
    updateTable([ZeroModel EXCEPT !.queryResult = queryResult, !.queryName = queryName,
                                  !.lastFetched = lastFetched])

\* Model.isNewIssue, isChangedIssue, isRemovedIssue: by key.
isNewIssue(m, issue) ==
    \E i \in 1..Len(m.queryResult.NewIssues) : m.queryResult.NewIssues[i].Key = issue.Key

isChangedIssue(m, issue) == issue.Key \in DOMAIN m.queryResult.ChangedIssues

isRemovedIssue(m, issue) ==
    \E i \in 1..Len(m.queryResult.RemovedIssues) :
        m.queryResult.RemovedIssues[i].Key = issue.Key

\* The panel of the selected row: its heading and the changes listed.
Panel(status, changes) == [status |-> status, changes |-> changes]

NoPanel == Panel("", <<>>)

\* cursor >= 0 && cursor < len(m.displayedIssues); the cursor counts from 0.
CursorInRange(m) == m.cursor >= 0 /\ m.cursor < Len(m.displayedIssues)

\* The loop over the changes left after its first round.
renderItemStatusFirstChange(m) ==
    IF ~CursorInRange(m) THEN NoPanel
    ELSE LET selectedIssue == m.displayedIssues[m.cursor + 1]
         IN IF isNewIssue(m, selectedIssue) THEN Panel("NEW ITEM", <<>>)
            ELSE IF isChangedIssue(m, selectedIssue)
              THEN Panel("CHANGED ITEM",
                         SubSeq(m.queryResult.ChangedIssues[selectedIssue.Key], 1, 1))
            ELSE IF isRemovedIssue(m, selectedIssue) THEN Panel("REMOVED ITEM", <<>>)
            ELSE Panel("UNCHANGED ITEM", <<>>)

\* Model.renderItemStatus
renderItemStatus(m) ==
    IF ~CursorInRange(m) THEN NoPanel
    ELSE LET selectedIssue == m.displayedIssues[m.cursor + 1]
         IN IF isNewIssue(m, selectedIssue) THEN Panel("NEW ITEM", <<>>)
            ELSE IF isChangedIssue(m, selectedIssue)
              THEN Panel("CHANGED ITEM", m.queryResult.ChangedIssues[selectedIssue.Key])
            ELSE IF isRemovedIssue(m, selectedIssue) THEN Panel("REMOVED ITEM", <<>>)
            ELSE Panel("UNCHANGED ITEM", <<>>)

\* Model.View: of what it writes, the summary line of the selected issue and
\* the status panel.
View(m) ==
    [summary |-> IF CursorInRange(m) THEN Text(m.displayedIssues[m.cursor + 1].Summary)
                 ELSE Text(""),
     panel |-> renderItemStatus(m)]

NoView == [summary |-> Text(""), panel |-> NoPanel]

\* table.Model.Update on a key: the cursor moves by one row or to an end and
\* stays inside the rows; other keys do nothing.
Keys == {"up", "down", "home", "end", "x"}

Clamp(n, lo, hi) == IF n < lo THEN lo ELSE IF n > hi THEN (IF hi < lo THEN lo ELSE hi) ELSE n

MoveCursor(m, key) ==
    LET last == Len(m.rows) - 1
    IN CASE key = "up" -> Clamp(m.cursor - 1, 0, last)
         [] key = "down" -> Clamp(m.cursor + 1, 0, last)
         [] key = "home" -> 0
         [] key = "end" -> Clamp(last, 0, last)
         [] OTHER -> m.cursor

\* The terminal sizes of a tea.WindowSizeMsg.
TerminalSizes == {<<0, 0>>, <<80, 24>>, <<40, 10>>}

\* What a command puts on the terminal.
NoScreen == [kind |-> "none", rows |-> <<>>]

\* if len(result.Query.Issues) == 0 { fmt.Printf("No issues found ..."); return nil }
\* model := ui.NewModel(queryName, *result, result.Query.LastFetched); program.Run()
Screens(queryName, result) ==
    IF Len(result.Query.Issues) = 0
      THEN {[kind |-> "No issues found", rows |-> <<>>]}
      ELSE {[kind |-> "table", rows |-> m.rows] :
                m \in NewModel(queryName, result, result.Query.LastFetched)}

\* ----------------------------------------------------------------- mappings
\* var validTaskTypes = []string{"Spike", "Task"}; the first is the default.
validTaskTypes == <<"Spike", "Task">>

\* A map[string]string is a function on the keys it has.
\* m.ComponentToProject[component], m.ProjectToTaskType[project]: "" for a
\* key the map lacks.
MapGet(map, key) == IF key \in DOMAIN map THEN map[key] ELSE ""

MapSet(map, key, value) ==
    [k \in DOMAIN map \cup {key} |-> IF k = key THEN value ELSE map[k]]

\* mappings.NewMappings()
NewMappings == [ComponentToProject |-> <<>>, ProjectToTaskType |-> <<>>]

GetProjectForComponent(m, component) == MapGet(m.ComponentToProject, component)

GetTaskTypeForProject(m, project) == MapGet(m.ProjectToTaskType, project)

SetComponentMapping(m, component, project) ==
    [m EXCEPT !.ComponentToProject = MapSet(@, component, project)]

SetTaskTypeMapping(m, project, taskType) ==
    [m EXCEPT !.ProjectToTaskType = MapSet(@, project, taskType)]

\* What determineProject returns.
ProjectResult(project, err) == [project |-> project, err |-> err]

\* An empty component taken for an error whatever was provided.
determineProjectNeedsComponent(componentName, providedProject, m, answer) ==
    IF componentName = ""
      THEN ProjectResult("", "could not determine component")
    ELSE LET mappedProject == GetProjectForComponent(m, componentName)
         IN IF providedProject = ""
              THEN IF mappedProject = ""
                     THEN ProjectResult("", "no mapping found for component and --for not provided")
                     ELSE ProjectResult(mappedProject, NoError)
            ELSE IF mappedProject = "" \/ mappedProject = providedProject
              THEN ProjectResult(providedProject, NoError)
            ELSE IF answer THEN ProjectResult(providedProject, NoError)
            ELSE ProjectResult(mappedProject, NoError)

\* determineProject; answer is what askForConfirmation returns when the
\* mapping and the provided project differ.
determineProject(componentName, providedProject, m, answer) ==
    IF componentName = ""
      THEN IF providedProject = ""
             THEN ProjectResult("", "could not determine component and --for not provided")
             ELSE ProjectResult(providedProject, NoError)
    ELSE LET mappedProject == GetProjectForComponent(m, componentName)
         IN IF providedProject = ""
              THEN IF mappedProject = ""
                     THEN ProjectResult("", "no mapping found for component and --for not provided")
                     ELSE ProjectResult(mappedProject, NoError)
            ELSE IF mappedProject = "" \/ mappedProject = providedProject
              THEN ProjectResult(providedProject, NoError)
            ELSE IF answer THEN ProjectResult(providedProject, NoError)
            ELSE ProjectResult(mappedProject, NoError)

\* The mapped type returned whenever the project has one.
determineTaskTypeMappedFirst(project, providedTaskType, m) ==
    LET mappedTaskType == GetTaskTypeForProject(m, project)
    IN IF mappedTaskType = "" THEN providedTaskType ELSE mappedTaskType

\* determineTaskType
determineTaskType(project, providedTaskType, m) ==
    LET mappedTaskType == GetTaskTypeForProject(m, project)
    IN IF mappedTaskType = "" \/ mappedTaskType = providedTaskType
         THEN providedTaskType
       ELSE IF providedTaskType = validTaskTypes[1]
         THEN mappedTaskType
       ELSE providedTaskType

\* The mapping written without the test for a provided project.
saveComponentMappingUnprovided(componentName, providedProject, finalProject, m, answer) ==
    IF componentName = "" THEN m
    ELSE LET mappedProject == GetProjectForComponent(m, componentName)
         IN IF mappedProject = ""
              THEN SetComponentMapping(m, componentName, finalProject)
            ELSE IF mappedProject = finalProject THEN m
            ELSE IF answer THEN SetComponentMapping(m, componentName, finalProject)
            ELSE m

\* saveComponentMappingIfNeeded: the mappings after the call; answer is what
\* askForConfirmation returns when the mapping and the final project differ.
saveComponentMappingIfNeeded(componentName, providedProject, finalProject, m, answer) ==
    IF componentName = "" \/ providedProject = "" THEN m
    ELSE LET mappedProject == GetProjectForComponent(m, componentName)
         IN IF mappedProject = ""
              THEN SetComponentMapping(m, componentName, finalProject)
            ELSE IF mappedProject = finalProject THEN m
            ELSE IF answer THEN SetComponentMapping(m, componentName, finalProject)
            ELSE m

\* The type written over a mapping the project already has.
saveTaskTypeMappingOverwrites(project, finalTaskType, m) ==
    IF finalTaskType = validTaskTypes[1] THEN m
    ELSE SetTaskTypeMapping(m, project, finalTaskType)

\* saveTaskTypeMappingIfNeeded: the mappings after the call.
saveTaskTypeMappingIfNeeded(project, finalTaskType, m) ==
    IF finalTaskType = validTaskTypes[1] THEN m
    ELSE IF GetTaskTypeForProject(m, project) # "" THEN m
    ELSE SetTaskTypeMapping(m, project, finalTaskType)

\* The arguments main and the tests call the functions with.
Args(componentName, providedProject, project, taskType) ==
    [componentName |-> componentName, providedProject |-> providedProject,
     project |-> project, taskType |-> taskType]

NoArgs == Args("", "", "", "")

\* A call and what it returned.
Call(name, before, project, err, taskType) ==
    [name |-> name, before |-> before, project |-> project, err |-> err,
     taskType |-> taskType]

NoCall == Call("", NewMappings, "", NoError, "")

VARIABLES
    files,      \* the data directory: name -> file
    clock,      \* the next reading of time.Now()
    st,         \* per process: the running command and its locals
    prevOp,     \* history: the command that finished last, if it was a
                \* create-or-update that succeeded
    lastWriter, \* history: the process of the latest f.Write
    persisted,  \* history: per name, the issues the latest successful
                \* create-or-update or inspect of it saved; none after a delete
    cmpCur, cmpPrev, cmpRes, cmpPc,  \* a call of CompareQueries on its own
    cmpRev,     \* and the call with the two arguments exchanged
    rtQuery, rtLoaded, rtPc,    \* a SaveQuery and the LoadQuery after it
    ptNames,    \* two names handed to the store
    ptDisk,     \* the file system they are saved to: path -> file
    ptPc,       \* per name: ready, saved or save failed, loaded
    ptPaths,    \* history: the path SaveQuery wrote for each name
    ptLoaded,   \* per name: what LoadQuery returned
    uiGiven,    \* history: the QueryResult the presenter was constructed with
    uiModel,    \* the presenter's ui.Model
    uiView,     \* what View rendered last: summary line and status panel
    uiPc,       \* the presenter: off, new, running, quit
    mpArgs,     \* the arguments of a call of one of the mapping functions
    mpMappings, \* the *mappings.Mappings the call is handed
    mpOut,      \* the call made, the mappings before it and what it returned
    mpPc        \* the call: off, ready, done

vars == <<files, clock, st, prevOp, lastWriter, persisted, cmpCur, cmpPrev, cmpRes, cmpPc, cmpRev,
          rtQuery, rtLoaded, rtPc, ptNames, ptDisk, ptPc, ptPaths, ptLoaded,
          uiGiven, uiModel, uiView, uiPc, mpArgs, mpMappings, mpOut, mpPc>>

cmpVars == <<cmpCur, cmpPrev, cmpRes, cmpPc, cmpRev>>

rtVars == <<rtQuery, rtLoaded, rtPc>>

\* The variables of the store's functions run on their own.
ptVars == <<ptNames, ptDisk, ptPc, ptPaths, ptLoaded>>

uiVars == <<uiGiven, uiModel, uiView, uiPc>>

mpVars == <<mpArgs, mpMappings, mpOut, mpPc>>

aloneVars == <<cmpVars, rtVars, ptVars, uiVars, mpVars>>

NoLoad == [nil |-> TRUE, q |-> ZeroQueryInfo, err |-> NoError]

Idle ==
    [pc |-> "idle", cli |-> FALSE, kind |-> "none", name |-> "", jql |-> "",
     desc |-> "", entries |-> <<>>, listing |-> <<>>, screen |-> NoScreen,
     existing |-> NoLoad, cur |-> <<>>, queryInfo |-> ZeroQueryInfo,
     result |-> NilResult, err |-> NoError, calls |-> <<>>,
     fdLive |-> FALSE, before |-> [n \in FileNames |-> NoFile], saveOld |-> NoFile]

NoOp == [kind |-> "none", name |-> "", jql |-> "", cur |-> <<>>, saved |-> ZeroTime]

\* No command has run.
NoCommand ==
    /\ clock = 1
    /\ st = [p \in Procs |-> Idle]
    /\ prevOp = NoOp
    /\ lastWriter = 0
    /\ persisted = [n \in Names |-> <<>>]

CompareOff ==
    /\ cmpCur = <<>> /\ cmpPrev = <<>> /\ cmpRes = EmptyResult /\ cmpPc = "off"
    /\ cmpRev = EmptyResult

RoundTripOff == rtQuery = ZeroQueryInfo /\ rtLoaded = NoLoad /\ rtPc = "off"

PathOff ==
    /\ ptNames = <<"", "">>
    /\ ptDisk = [f \in AllPaths |-> NoFile]
    /\ ptPc = <<"off", "off">>
    /\ ptPaths = <<NoPath, NoPath>>
    /\ ptLoaded = <<NoLoad, NoLoad>>

PresenterOff ==
    /\ uiGiven = NilResult /\ uiModel = ZeroModel /\ uiView = NoView /\ uiPc = "off"

MappingsOff ==
    /\ mpArgs = NoArgs /\ mpMappings = NewMappings /\ mpOut = NoCall /\ mpPc = "off"

Init ==
    /\ files = [n \in FileNames |-> NoFile]
    /\ NoCommand
    /\ CompareOff
    /\ RoundTripOff
    /\ PathOff
    /\ PresenterOff
    /\ MappingsOff

\* A command returns: its error and result stay visible until the process
\* exits.
Return(p, e, r, call) ==
    st' = [st EXCEPT ![p].pc = "done", ![p].err = e, ![p].result = r,
                     ![p].calls = IF call = "" THEN @ ELSE Append(@, call)]

Goto(p, next, call) ==
    st' = [st EXCEPT ![p].pc = next, ![p].calls = Append(@, call)]

\* main: a command starts, through cobra (cli) or through the Service API.
StartWith(p, kinds, clis, names, jqls, descs) ==
    /\ st[p].pc = "idle"
    /\ \E kind \in kinds, cli \in clis, name \in names, jql \in jqls, desc \in descs :
         /\ kind # "watch" => (jql = "q1" /\ desc = "")
         /\ kind = "list" => (cli /\ name = "n1")
         /\ st' = [st EXCEPT ![p] =
                [Idle EXCEPT !.pc = IF kind = "watch" THEN "validate"
                                    ELSE IF kind = "list" THEN "list"
                                    ELSE IF cli THEN "exists"
                                    ELSE IF kind = "inspect" THEN "load"
                                    ELSE "remove",
                             !.cli = cli, !.kind = kind,
                             !.name = IF kind = "list" THEN "" ELSE name,
                             !.jql = IF kind = "watch" THEN jql ELSE "",
                             !.desc = desc,
                             !.before = files]]
    /\ UNCHANGED <<files, clock, prevOp, lastWriter, persisted, aloneVars>>

Start(p) == StartWith(p, {"watch", "inspect", "delete", "list"}, BOOLEAN, Names, JQLs, Descriptions)

\* runInspect / runDelete: if !svc.QueryExists(queryName) { return error }
Exists(p) ==
    /\ st[p].pc = "exists"
    /\ IF QueryExists(files, st[p].name)
         THEN Goto(p, IF st[p].kind = "inspect" THEN "load" ELSE "remove", "stat")
         ELSE Return(p, "not found", NilResult, "stat")
    /\ UNCHANGED <<files, clock, prevOp, lastWriter, persisted, aloneVars>>

\* The error of ValidateJQL dropped: WatchQuery goes on to the store.
ValidateFailureIgnored(p) == Goto(p, "load", "validate:fail")

\* if err := s.jiraClient.ValidateJQL(...); err != nil { return nil, err }
ValidateFailure(p) == Return(p, "invalid JQL", NilResult, "validate:fail")

\* WatchQuery: s.jiraClient.ValidateJQL(ctx, opts.JQL)
Validate(p) ==
    /\ st[p].pc = "validate"
    /\ \/ Goto(p, "load", "validate")
       \/ ValidateFailure(p)
    /\ UNCHANGED <<files, clock, prevOp, lastWriter, persisted, aloneVars>>

\* runList: svc.ListQueriesDetailed() and the printing of its items.
List(p) ==
    /\ st[p].pc = "list"
    /\ st' = [st EXCEPT ![p].pc = "done", ![p].listing = ListQueriesDetailed(files),
                        ![p].calls = Append(@, "readdir")]
    /\ UNCHANGED <<files, clock, prevOp, lastWriter, persisted, aloneVars>>

\* WatchQuery / InspectQuery: s.store.LoadQuery(name)
Load(p) ==
    /\ st[p].pc = "load"
    /\ LET existing == LoadQuery(files, st[p].name)
       IN IF existing.err # NoError
            THEN st' = [st EXCEPT ![p].pc = "done", ![p].existing = existing,
                                  ![p].err = "failed to load query",
                                  ![p].calls = Append(@, "read")]
          ELSE IF st[p].kind = "inspect" /\ InspectNotFound(existing)
            THEN st' = [st EXCEPT ![p].pc = "done", ![p].existing = existing,
                                  ![p].err = "not found",
                                  ![p].calls = Append(@, "read")]
          ELSE st' = [st EXCEPT ![p].pc = "fetch", ![p].existing = existing,
                                ![p].jql = IF st[p].kind = "inspect"
                                             THEN existing.q.JQL ELSE @,
                                ![p].calls = Append(@, "read")]
    /\ UNCHANGED <<files, clock, prevOp, lastWriter, persisted, aloneVars>>

\* The name and JQL of the QueryInfo to save: WatchQuery takes them from
\* opts, InspectQuery from the record it loaded.
SaveName(s) == IF s.kind = "inspect" THEN s.existing.q.Name ELSE s.name

\* InspectQuery leaving the JQL of the rebuilt QueryInfo unset.
SaveJQLUnset(s) == IF s.kind = "inspect" THEN "" ELSE s.jql

SaveJQL(s) == IF s.kind = "inspect" THEN s.existing.q.JQL ELSE s.jql

\* A forgotten error check: the command goes on with no issues.
FetchFailureIgnored(p) ==
    /\ clock <= MaxClock
    /\ st' = [st EXCEPT ![p].pc = "save_open", ![p].cur = <<>>,
                        ![p].queryInfo = NewQueryInfo(SaveName(st[p]), SaveJQL(st[p]),
                                                      clock, <<>>),
                        ![p].calls = Append(@, "search:fail")]
    /\ clock' = clock + 1

\* The failed search tried again.
FetchFailureRetried(p) ==
    /\ st' = [st EXCEPT ![p].calls = Append(@, "search:fail")]
    /\ UNCHANGED clock

\* currentIssues, err := ExecuteQuery(...); if err != nil { return nil, err }
FetchFailure(p) ==
    /\ Return(p, "failed to execute query", NilResult, "search:fail")
    /\ UNCHANGED clock

\* s.jiraClient.ExecuteQuery, then compare.CompareQueries and the QueryInfo
\* stamped with time.Now().
Fetch(p) ==
    /\ st[p].pc = "fetch"
    /\ \/ FetchFailure(p)
       \/ /\ clock <= MaxClock
          /\ \E currentIssues \in TrackerLists :
             \E result \in CompareQueries(currentIssues, PreviousIssues(st[p].existing)) :
                st' = [st EXCEPT
                    ![p].pc = "save_open", ![p].cur = currentIssues,
                    ![p].result = [NilResult EXCEPT
                                      !.NewIssues = result.NewIssues,
                                      !.RemovedIssues = result.RemovedIssues,
                                      !.ChangedIssues = result.ChangedIssues],
                    ![p].queryInfo = NewQueryInfo(SaveName(st[p]), SaveJQL(st[p]),
                                                  clock, currentIssues),
                    ![p].calls = Append(@, "search")]
          /\ clock' = clock + 1
    /\ UNCHANGED <<files, prevOp, lastWriter, persisted, aloneVars>>

\* The error of SaveQuery dropped: the command returns its result.
SaveFailureIgnored(p, call) ==
    Return(p, NoError,
           DisplayResult(st[p].result, st[p].queryInfo, PreviousFetched(st[p].existing)),
           call)

\* if err := s.store.SaveQuery(queryInfo); err != nil { return nil, err }
SaveFailure(p, call) == Return(p, "failed to save query", NilResult, call)

\* Store.SaveQuery, first half: yaml.Marshal and the open of os.WriteFile on
\* queryFilePath(query.Name).
SaveOpen(p) ==
    /\ st[p].pc = "save_open"
    /\ LET target == st[p].queryInfo.Name
       IN \/ /\ files' = [files EXCEPT ![target] = OpenTrunc(@)]
             /\ st' = [st EXCEPT ![p].pc = "save_write", ![p].fdLive = TRUE,
                                 ![p].saveOld = files[target],
                                 ![p].calls = Append(@, "open")]
          \/ /\ SaveFailure(p, "open:fail")
             /\ UNCHANGED files
    /\ UNCHANGED <<clock, prevOp, lastWriter, persisted, aloneVars>>

\* Store.SaveQuery, second half: f.Write(data), f.Close(); then WatchQuery /
\* InspectQuery fill result.Query and return.  A failing write leaves the
\* file as the open left it.
SaveWrite(p) ==
    /\ st[p].pc = "save_write"
    /\ LET target == st[p].queryInfo.Name
           data == Marshal(st[p].queryInfo)
       IN \/ /\ files' = IF st[p].fdLive
                           THEN [files EXCEPT ![target] = WriteAt0(@, data)]
                           ELSE files
             /\ lastWriter' = p
             /\ st' = [st EXCEPT
                    ![p].pc = IF st[p].cli THEN "show" ELSE "done",
                    ![p].err = NoError,
                    ![p].result = DisplayResult(st[p].result, st[p].queryInfo,
                                                PreviousFetched(st[p].existing)),
                    ![p].calls = Append(@, "write")]
          \/ /\ SaveFailure(p, "write:fail")
             /\ UNCHANGED <<files, lastWriter>>
    /\ UNCHANGED <<clock, prevOp, persisted, aloneVars>>

\* runWatch / runInspect after the service returned a result: the message
\* for an empty answer, or the table.
Show(p) ==
    /\ st[p].pc = "show"
    /\ \E screen \in Screens(st[p].name, st[p].result) :
          st' = [st EXCEPT ![p].pc = "done", ![p].screen = screen]
    /\ UNCHANGED <<files, clock, prevOp, lastWriter, persisted, aloneVars>>

\* Service.DeleteQuery -> Store.DeleteQuery: os.Remove(filePath).  A file
\* another process holds open is unlinked under it.
Remove(p) ==
    /\ st[p].pc = "remove"
    /\ LET name == st[p].name
           err == DeleteQueryErr(OsRemoveErr(files[name]))
       IN /\ files' = OsRemove(files, name)
          /\ st' = [q \in Procs |->
                IF q = p
                  THEN [st[p] EXCEPT !.pc = "done", !.err = err,
                                     !.calls = Append(@, "remove")]
                ELSE IF st[q].pc = "save_write" /\ st[q].queryInfo.Name = name
                  THEN [st[q] EXCEPT !.fdLive = FALSE]
                ELSE st[q]]
    /\ UNCHANGED <<clock, prevOp, lastWriter, persisted, aloneVars>>

\* The process exits; a later command runs in a new process.
Exit(p) ==
    /\ st[p].pc = "done"
    /\ prevOp' = IF st[p].kind = "watch" /\ st[p].err = NoError
                   THEN [kind |-> "watch", name |-> st[p].name, jql |-> st[p].jql,
                         cur |-> st[p].cur, saved |-> st[p].queryInfo.LastFetched]
                   ELSE NoOp
    /\ persisted' = IF st[p].err # NoError \/ st[p].kind = "list" THEN persisted
                    ELSE [persisted EXCEPT ![st[p].name] =
                             IF st[p].kind = "delete" THEN <<>> ELSE st[p].cur]
    /\ st' = [st EXCEPT ![p] = Idle]
    /\ UNCHANGED <<files, clock, lastWriter, aloneVars>>

\* The process is killed (or the machine stops) in the middle of a command.
\* Inside f.Write any number of whole lines, and possibly part of the next,
\* has reached the file.
Crash(p) ==
    /\ st[p].pc \notin {"idle", "done", "crashed"}
    /\ IF st[p].pc = "save_write" /\ st[p].fdLive
         THEN LET target == st[p].queryInfo.Name
                  data == Marshal(st[p].queryInfo)
              IN \E k \in 0..Len(data), torn \in BOOLEAN :
                   /\ torn => k < Len(data)
                   /\ files' = [files EXCEPT ![target] =
                        WriteAt0(@, SubSeq(data, 1, k)
                                     \o (IF torn THEN <<TornLine>> ELSE <<>>))]
         ELSE UNCHANGED files
    /\ st' = [st EXCEPT ![p].pc = "crashed"]
    /\ UNCHANGED <<clock, prevOp, lastWriter, persisted, aloneVars>>

Restart(p) ==
    /\ st[p].pc = "crashed"
    /\ st' = [st EXCEPT ![p] = Idle]
    /\ UNCHANGED <<files, clock, prevOp, lastWriter, persisted, aloneVars>>

\* One user running one command after the other.
Next ==
    \/ Start(1) \/ Exists(1) \/ Validate(1) \/ List(1) \/ Load(1) \/ Fetch(1)
    \/ SaveOpen(1) \/ SaveWrite(1) \/ Show(1) \/ Remove(1) \/ Exit(1)

Spec == Init /\ [][Next]_vars

\* The same, with commands that are killed.
CrashStart(p) == StartWith(p, {"watch", "inspect"}, {FALSE}, {"n1"}, {"q1"}, {""})

CrashNext ==
    \/ CrashStart(1) \/ Validate(1) \/ Load(1) \/ Fetch(1)
    \/ SaveOpen(1) \/ SaveWrite(1) \/ Exit(1) \/ Crash(1) \/ Restart(1)

CrashSpec == Init /\ [][CrashNext]_vars

\* Two processes on one data directory.
ConcStart(p) == StartWith(p, {"watch", "delete"}, {FALSE}, {"n1"}, {"q1"}, {""})

\* Fetch within the number of time.Now() readings of two processes.
ConcFetch(p) == Fetch(p) /\ clock' <= ConcMaxClock + 1

ConcNext ==
    \E p \in Procs :
        \/ ConcStart(p) \/ Validate(p) \/ Load(p) \/ ConcFetch(p)
        \/ SaveOpen(p) \/ SaveWrite(p) \/ Remove(p) \/ Exit(p)

ConcSpec == Init /\ [][ConcNext]_vars

\* ------------------------------------------- a listing beside another process
\* Store.ListQueriesDetailed, its os.ReadDir.
ListDir(p) ==
    /\ st[p].pc = "list"
    /\ st' = [st EXCEPT ![p].pc = "list_load", ![p].entries = ReadDir(files),
                        ![p].calls = Append(@, "readdir")]
    /\ UNCHANGED <<files, clock, prevOp, lastWriter, persisted, aloneVars>>

\* Store.ListQueriesDetailed, one turn of its loop: LoadQuery of the entry,
\* continue on an error, else the item built from *query.  LoadQuery returns
\* (nil, nil) for a file that is gone, and query.Name on the nil pointer
\* panics: the process dies.  After the last entry the listing is returned.
ListEntry(p) ==
    /\ st[p].pc = "list_load"
    /\ IF st[p].entries = <<>>
         THEN st' = [st EXCEPT ![p].pc = "done"]
         ELSE LET name == Head(st[p].entries)
                  query == LoadQuery(files, name)
              IN IF query.err # NoError
                   THEN st' = [st EXCEPT ![p].entries = Tail(@),
                                         ![p].calls = Append(@, "read")]
                 ELSE IF query.nil
                   THEN st' = [st EXCEPT ![p].pc = "crashed",
                                         ![p].err = "panic: nil pointer dereference",
                                         ![p].calls = Append(@, "read")]
                 ELSE st' = [st EXCEPT ![p].entries = Tail(@),
                                       ![p].listing = Append(@, QueryListItem(query.q)),
                                       ![p].calls = Append(@, "read")]
    /\ UNCHANGED <<files, clock, prevOp, lastWriter, persisted, aloneVars>>

\* Process 1 lists while process 2 creates, updates and deletes records.
ListStart(p) == StartWith(p, {"list"}, {TRUE}, {"n1"}, {"q1"}, {""})

ListOtherStart(p) == StartWith(p, {"watch", "delete"}, {FALSE}, Names, {"q1"}, {""})

ListNext ==
    \/ ListStart(1) \/ ListDir(1) \/ ListEntry(1) \/ Exit(1) \/ Restart(1)
    \/ ListOtherStart(2) \/ Validate(2) \/ Load(2) \/ ConcFetch(2)
    \/ SaveOpen(2) \/ SaveWrite(2) \/ Remove(2) \/ Exit(2)

ListSpec == Init /\ [][ListNext]_vars

\* ------------------------------------------------ CompareQueries on its own
X1n == [X1 EXCEPT !.Labels = NilLabels]

X2r == [X2 EXCEPT !.Labels = MkLabels(<<LabelB, LabelA>>)]

X2j == [X2 EXCEPT !.Labels = MkLabels(<<LabelAB>>), !.LastUpdated = 5]

X3 == Issue("X-3", "s3", "c2", "Closed", 6, MkLabels(<<LabelA>>), "eve")

IssueUniverse == {X1, X1b, X1n, X2, X2r, X2j, X3}

IssueLists == UNION {[1..n -> IssueUniverse] : n \in 0..MaxLen}

CompareInit ==
    /\ files = [n \in FileNames |-> NoFile]
    /\ NoCommand
    /\ RoundTripOff
    /\ PathOff
    /\ PresenterOff
    /\ MappingsOff
    /\ cmpCur \in IssueLists /\ cmpPrev \in IssueLists
    /\ cmpRes = EmptyResult /\ cmpPc = "ready"
    /\ cmpRev = EmptyResult

Compare ==
    /\ cmpPc = "ready"
    /\ cmpRes' \in CompareQueries(cmpCur, cmpPrev)
    /\ cmpRev' \in CompareQueries(cmpPrev, cmpCur)
    /\ cmpPc' = "compared"
    /\ UNCHANGED <<files, clock, st, prevOp, lastWriter, persisted, cmpCur, cmpPrev, rtVars, ptVars, uiVars, mpVars>>

CompareNext == Compare

CompareSpec == CompareInit /\ [][CompareNext]_vars

\* ------------------------------------- SaveQuery and LoadQuery on their own
\* The instants a record to save is stamped with.
StampTimes == 1..(MaxClock + 1)

\* What the file of a name can hold before a save: nothing, an empty
\* document, a longer document of an earlier save, a document cut short.
EarlierFiles(name) ==
    {NoFile, File(<<>>), File(Marshal(QueryInfo(name, "q2", 1, <<X1, X2, X3>>))),
     File(<<Line("name", name, 0, ZeroIssue), TornLine>>)}

RoundTripInit ==
    /\ NoCommand
    /\ CompareOff
    /\ PathOff
    /\ PresenterOff
    /\ MappingsOff
    /\ rtQuery \in {QueryInfo(n, q, t, is) :
                        n \in Names, q \in JQLs, t \in StampTimes, is \in IssueLists}
    /\ \E f \in EarlierFiles(rtQuery.Name) :
          files = [n \in FileNames |-> IF n = rtQuery.Name THEN f ELSE NoFile]
    /\ rtLoaded = NoLoad
    /\ rtPc = "ready"

\* Store.SaveQuery(query): os.WriteFile opens with O_TRUNC and writes the
\* marshalled document, or fails at the open and leaves the file as it was.
RtSave ==
    /\ rtPc = "ready"
    /\ \/ /\ files' = [files EXCEPT ![rtQuery.Name] = WriteAt0(OpenTrunc(@), Marshal(rtQuery))]
          /\ rtPc' = "saved"
       \/ /\ rtPc' = "save failed"
          /\ UNCHANGED files
    /\ UNCHANGED <<clock, st, prevOp, lastWriter, persisted, cmpVars, rtQuery, rtLoaded, ptVars, uiVars, mpVars>>

\* Store.LoadQuery(name) after the save.
RtLoad ==
    /\ rtPc = "saved"
    /\ rtLoaded' = LoadQuery(files, rtQuery.Name)
    /\ rtPc' = "loaded"
    /\ UNCHANGED <<files, clock, st, prevOp, lastWriter, persisted, cmpVars, rtQuery, ptVars, uiVars, mpVars>>

RoundTripNext == RtSave \/ RtLoad

RoundTripSpec == RoundTripInit /\ [][RoundTripNext]_vars

\* ------------------------------------------------- names and their files
PathInit ==
    /\ files = [n \in FileNames |-> NoFile]
    /\ NoCommand
    /\ CompareOff
    /\ RoundTripOff
    /\ PresenterOff
    /\ MappingsOff
    /\ ptNames \in PathNames \X PathNames
    /\ ptDisk = [f \in AllPaths |-> NoFile]
    /\ ptPc = <<"ready", "ready">>
    /\ ptPaths = <<NoPath, NoPath>>
    /\ ptLoaded = <<NoLoad, NoLoad>>

\* Store.SaveQuery of a record with the i-th name: os.WriteFile fails when
\* the directory of the path is not there.
PtSave(i) ==
    /\ ptPc[i] = "ready"
    /\ LET path == queryFilePath(ptNames[i])
           query == QueryInfo(ptNames[i], "q1", 1, <<X1>>)
       IN /\ ptPaths' = [ptPaths EXCEPT ![i] = path]
          /\ IF path.dir \in Directories
               THEN /\ ptDisk' = [ptDisk EXCEPT ![path] = WriteAt0(OpenTrunc(@), Marshal(query))]
                    /\ ptPc' = [ptPc EXCEPT ![i] = "saved"]
               ELSE /\ ptPc' = [ptPc EXCEPT ![i] = "save failed"]
                    /\ UNCHANGED ptDisk
    /\ UNCHANGED <<files, clock, st, prevOp, lastWriter, persisted, cmpVars, rtVars, uiVars, mpVars, ptNames, ptLoaded>>

\* Store.LoadQuery of the i-th name.
PtLoad(i) ==
    /\ ptPc[i] = "saved"
    /\ LET name == ptNames[i]
       IN ptLoaded' = [ptLoaded EXCEPT ![i] =
                          LoadQuery([n \in {name} |-> ptDisk[queryFilePath(name)]], name)]
    /\ ptPc' = [ptPc EXCEPT ![i] = "loaded"]
    /\ UNCHANGED <<files, clock, st, prevOp, lastWriter, persisted, cmpVars, rtVars, uiVars, mpVars, ptNames, ptDisk,
                   ptPaths>>

PathNext == \E i \in {1, 2} : PtSave(i) \/ PtLoad(i)

PathSpec == PathInit /\ [][PathNext]_vars

\* ------------------------------------------------- the presenter on its own
X4 == Issue("X-4", "s4", "c2", "New", 4, MkLabels(<<LabelB>>), "")

UiIssues == {X1, X1b, X2, X3, X4}

\* Issue lists as the tracker answers and the store keeps them: distinct keys.
UiLists ==
    {l \in UNION {[1..n -> UiIssues] : n \in 0..MaxLen} :
        \A i, j \in 1..Len(l) : l[i].Key = l[j].Key => i = j}

\* The results runWatch / runInspect hand to NewModel: of a comparison of a
\* non-empty current list with a previous one.
UiInit ==
    /\ files = [n \in FileNames |-> NoFile]
    /\ NoCommand
    /\ CompareOff
    /\ RoundTripOff
    /\ PathOff
    /\ MappingsOff
    /\ \E current \in UiLists, previous \in UiLists :
          /\ Len(current) > 0
          /\ \E r \in CompareQueries(current, previous) :
                uiGiven = DisplayResult([NilResult EXCEPT
                                            !.NewIssues = r.NewIssues,
                                            !.RemovedIssues = r.RemovedIssues,
                                            !.ChangedIssues = r.ChangedIssues],
                                        QueryInfo("n1", "q1", 2, current), 1)
    /\ uiModel = ZeroModel
    /\ uiView = NoView
    /\ uiPc = "new"

\* model := ui.NewModel(...); program.Run() renders it.
UiNew ==
    /\ uiPc = "new"
    /\ uiModel' \in NewModel("n1", uiGiven, uiGiven.Query.LastFetched)
    /\ uiView' = View(uiModel')
    /\ uiPc' = "running"
    /\ UNCHANGED <<files, clock, st, prevOp, lastWriter, persisted, cmpVars, rtVars, ptVars, mpVars, uiGiven>>

\* Model.Update(tea.WindowSizeMsg): width, height, updateTableSize.
UiResize ==
    /\ uiPc = "running"
    /\ \E size \in TerminalSizes :
          LET sized == [uiModel EXCEPT !.width = size[1], !.height = size[2]]
          IN uiModel' = [sized EXCEPT !.tableHeight = TableHeight(sized)]
    /\ uiView' = View(uiModel')
    /\ UNCHANGED <<files, clock, st, prevOp, lastWriter, persisted, cmpVars, rtVars, ptVars, mpVars, uiGiven,
                   uiPc>>

\* Model.Update(tea.KeyMsg) for a key other than q: the table moves its cursor.
UiKey ==
    /\ uiPc = "running"
    /\ \E key \in Keys : uiModel' = [uiModel EXCEPT !.cursor = MoveCursor(uiModel, key)]
    /\ uiView' = View(uiModel')
    /\ UNCHANGED <<files, clock, st, prevOp, lastWriter, persisted, cmpVars, rtVars, ptVars, mpVars, uiGiven,
                   uiPc>>

\* Model.Update(tea.KeyMsg) for q or ctrl+c: return m, tea.Quit.
UiQuit ==
    /\ uiPc = "running"
    /\ uiPc' = "quit"
    /\ UNCHANGED <<files, clock, st, prevOp, lastWriter, persisted, cmpVars, rtVars, ptVars, mpVars, uiGiven,
                   uiModel, uiView>>

UiNext == UiNew \/ UiResize \/ UiKey \/ UiQuit

UiSpec == UiInit /\ [][UiNext]_vars

\* ------------------------------------------ the mapping functions on their own
Components == {"c1", "c2"}

Projects == {"P1", "P2"}

TaskTypes == {validTaskTypes[i] : i \in 1..Len(validTaskTypes)}

PartialMaps(keys, values) == UNION {[d -> values] : d \in SUBSET keys}

MappingsInit ==
    /\ files = [n \in FileNames |-> NoFile]
    /\ NoCommand
    /\ CompareOff
    /\ RoundTripOff
    /\ PathOff
    /\ PresenterOff
    /\ mpArgs \in {Args(c, pp, p, t) : c \in {"", "c1"}, pp \in Projects \cup {""},
                                       p \in Projects, t \in TaskTypes}
    /\ mpMappings \in {[ComponentToProject |-> c2p, ProjectToTaskType |-> p2t] :
                          c2p \in PartialMaps(Components, Projects),
                          p2t \in PartialMaps(Projects, TaskTypes)}
    /\ mpOut = NoCall
    /\ mpPc = "ready"

\* finalProject, err := determineProject(componentName, o.componentProject, m)
DetermineProject ==
    /\ mpPc = "ready"
    /\ \E answer \in BOOLEAN :
          LET r == determineProject(mpArgs.componentName, mpArgs.providedProject,
                                    mpMappings, answer)
          IN mpOut' = Call("determineProject", mpMappings, r.project, r.err, "")
    /\ mpPc' = "done"
    /\ UNCHANGED <<files, clock, st, prevOp, lastWriter, persisted, cmpVars, rtVars, ptVars, uiVars,
                   mpArgs, mpMappings>>

\* finalTaskType := determineTaskType(finalProject, o.taskType, m)
DetermineTaskType ==
    /\ mpPc = "ready"
    /\ mpOut' = Call("determineTaskType", mpMappings, "", NoError,
                     determineTaskType(mpArgs.project, mpArgs.taskType, mpMappings))
    /\ mpPc' = "done"
    /\ UNCHANGED <<files, clock, st, prevOp, lastWriter, persisted, cmpVars, rtVars, ptVars, uiVars,
                   mpArgs, mpMappings>>

\* saveComponentMappingIfNeeded(componentName, o.componentProject, finalProject, m)
SaveComponentMapping ==
    /\ mpPc = "ready"
    /\ \E answer \in BOOLEAN :
          mpMappings' = saveComponentMappingIfNeeded(mpArgs.componentName,
                            mpArgs.providedProject, mpArgs.project, mpMappings, answer)
    /\ mpOut' = Call("saveComponentMappingIfNeeded", mpMappings, "", NoError, "")
    /\ mpPc' = "done"
    /\ UNCHANGED <<files, clock, st, prevOp, lastWriter, persisted, cmpVars, rtVars, ptVars, uiVars,
                   mpArgs>>

\* saveTaskTypeMappingIfNeeded(finalProject, finalTaskType, m)
SaveTaskTypeMapping ==
    /\ mpPc = "ready"
    /\ mpMappings' = saveTaskTypeMappingIfNeeded(mpArgs.project, mpArgs.taskType, mpMappings)
    /\ mpOut' = Call("saveTaskTypeMappingIfNeeded", mpMappings, "", NoError, "")
    /\ mpPc' = "done"
    /\ UNCHANGED <<files, clock, st, prevOp, lastWriter, persisted, cmpVars, rtVars, ptVars, uiVars,
                   mpArgs>>

MappingsNext ==
    DetermineProject \/ DetermineTaskType \/ SaveComponentMapping \/ SaveTaskTypeMapping

MappingsSpec == MappingsInit /\ [][MappingsNext]_vars

\* ================================================================== claims
LastCall(s) == IF Len(s.calls) = 0 THEN "" ELSE s.calls[Len(s.calls)]

Succeeded(s) == s.pc = "done" /\ s.err = NoError

\* The document is one a completed SaveQuery wrote.
CompleteDoc(data) ==
    /\ Len(data) >= 3
    /\ Unmarshal(data).err = NoError
    /\ data = Marshal(Unmarshal(data).q)

\* C1: the keys of NewIssues, RemovedIssues and ChangedIssues of a result of
\* CompareQueries are pairwise disjoint.
C1_DisjointKeySets ==
    cmpPc = "compared" =>
        LET new == KeysOf(cmpRes.NewIssues)
            removed == KeysOf(cmpRes.RemovedIssues)
            changed == DOMAIN cmpRes.ChangedIssues
        IN /\ new \cap removed = {}
           /\ changed \cap new = {}
           /\ changed \cap removed = {}

C1_Witness ==
    /\ cmpPc = "compared"
    /\ Len(cmpRes.NewIssues) > 0
    /\ Len(cmpRes.RemovedIssues) > 0
    /\ DOMAIN cmpRes.ChangedIssues # {}

\* C2: when the validation call or the fetch call fails, the command returns
\* an error and the data directory is what it was when the command started.
C2_FetchFailureLeavesStore ==
    \A p \in Procs :
        (/\ st[p].pc = "done"
         /\ \E i \in 1..Len(st[p].calls) :
                st[p].calls[i] \in {"validate:fail", "search:fail"}) =>
            /\ st[p].err # NoError
            /\ files = st[p].before

C2_Witness ==
    /\ st[1].pc = "done"
    /\ LastCall(st[1]) = "search:fail"
    /\ st[1].before[st[1].name].exists
    /\ Len(st[1].before[st[1].name].data) > 3

\* C3: after a crash inside SaveQuery over a complete record, LoadQuery
\* returns the old record or the new one.
C3_CrashLeavesOldOrNew ==
    \A p \in Procs :
        (/\ st[p].pc = "crashed"
         /\ st[p].fdLive
         /\ st[p].saveOld.exists
         /\ CompleteDoc(st[p].saveOld.data)) =>
            LET target == st[p].queryInfo.Name
            IN \/ files[target] = st[p].saveOld
               \/ files[target] = File(Marshal(st[p].queryInfo))

\* C4: after a successful WatchQuery(N, Q) the record loaded under N has
\* name N, query Q and exactly the fetched issues.
C4_WatchStoresFetched ==
    (Succeeded(st[1]) /\ st[1].kind = "watch") =>
        LET loaded == LoadQuery(files, st[1].name)
        IN /\ ~loaded.nil /\ loaded.err = NoError
           /\ loaded.q.Name = st[1].name
           /\ loaded.q.JQL = st[1].jql
           /\ loaded.q.Issues = st[1].cur

C4_Witness ==
    /\ Succeeded(st[1]) /\ st[1].kind = "watch"
    /\ LET old == LoadQuery(st[1].before, st[1].name)
       IN /\ ~old.nil
          /\ Len(old.q.Issues) > Len(st[1].cur)
          /\ old.q.JQL # st[1].jql

\* C5: a WatchQuery that directly follows a successful WatchQuery of the same
\* name and query, and fetches the same issues, reports no change and stores
\* a later last-fetch time.
C5_SecondWatchNoChange ==
    (/\ Succeeded(st[1]) /\ st[1].kind = "watch"
     /\ prevOp.kind = "watch" /\ prevOp.name = st[1].name
     /\ prevOp.jql = st[1].jql /\ prevOp.cur = st[1].cur) =>
        /\ ~HasChanges(st[1].result)
        /\ LoadQuery(files, st[1].name).q.LastFetched > prevOp.saved

C5_Witness ==
    /\ Succeeded(st[1]) /\ st[1].kind = "watch"
    /\ prevOp.kind = "watch" /\ prevOp.name = st[1].name
    /\ prevOp.jql = st[1].jql /\ prevOp.cur = st[1].cur
    /\ Len(st[1].cur) = 2

\* C6: the last-fetch time a successful WatchQuery or InspectQuery returns
\* is the one of the record stored when it started, not the one it wrote;
\* with no record it is the zero time and every fetched issue is new.
C6_BaselineIsPrevious ==
    (Succeeded(st[1]) /\ st[1].kind \in {"watch", "inspect"}) =>
        LET old == LoadQuery(st[1].before, st[1].name)
            r == st[1].result
        IN /\ r.Query.LastFetched = IF old.nil THEN ZeroTime ELSE old.q.LastFetched
           /\ r.Query.LastFetched # st[1].queryInfo.LastFetched
           /\ old.nil =>
                /\ Len(r.NewIssues) = Len(st[1].cur)
                /\ {r.NewIssues[i] : i \in 1..Len(r.NewIssues)}
                     = {st[1].cur[i] : i \in 1..Len(st[1].cur)}
                /\ Len(r.RemovedIssues) = 0
                /\ DOMAIN r.ChangedIssues = {}

C6_Witness ==
    /\ Succeeded(st[1]) /\ st[1].kind \in {"watch", "inspect"}
    /\ LET old == LoadQuery(st[1].before, st[1].name)
       IN ~old.nil /\ old.q.LastFetched > ZeroTime

\* C7: Inspect of a name without a file fails with "not found", searches
\* nothing and leaves the data directory as it was.
C7_InspectMissingNotFound ==
    (/\ st[1].pc = "done" /\ st[1].kind = "inspect"
     /\ ~st[1].before[st[1].name].exists) =>
        /\ st[1].err = "not found"
        /\ \A i \in 1..Len(st[1].calls) : st[1].calls[i] \notin {"search", "search:fail"}
        /\ files = st[1].before

C7_Witness ==
    /\ st[1].pc = "done" /\ st[1].kind = "inspect" /\ ~st[1].cli
    /\ ~st[1].before[st[1].name].exists
    /\ \E n \in Names : st[1].before[n].exists

\* C8: DeleteQuery(name) returns nil whether or not the file exists, no file
\* is under name afterwards and the other files are untouched.
C8_DeleteIdempotent ==
    (st[1].pc = "done" /\ LastCall(st[1]) = "remove") =>
        /\ st[1].err = NoError
        /\ ~files[st[1].name].exists
        /\ \A n \in FileNames \ {st[1].name} : files[n] = st[1].before[n]

C8_Witness ==
    /\ st[1].pc = "done" /\ LastCall(st[1]) = "remove"
    /\ ~st[1].before[st[1].name].exists
    /\ \E n \in Names : files[n].exists

\* C9: the delete command completes without error, on a missing name too.
C9_DeleteCommandSucceeds ==
    (st[1].pc = "done" /\ st[1].kind = "delete" /\ st[1].cli) => st[1].err = NoError

\* C10: once two concurrent WatchQuery of one name have both returned, the
\* file is the document of the one that wrote last.
C10_LastWriteWins ==
    (/\ Succeeded(st[1]) /\ Succeeded(st[2])
     /\ st[1].kind = "watch" /\ st[2].kind = "watch"
     /\ st[1].name = st[2].name) =>
        files[st[1].name] = File(Marshal(st[lastWriter].queryInfo))

\* The elements of a sequence.
Range(list) == {list[i] : i \in 1..Len(list)}

DistinctKeys(list) == Cardinality(KeysOf(list)) = Len(list)

\* C11: NewIssues holds one issue of current for each key of current that
\* previous lacks, RemovedIssues one issue of previous, with the values it
\* has there, for each key of previous that current lacks; on lists whose
\* keys are distinct these are exactly the issues with such a key.
C11_NewAndRemovedExact ==
    cmpPc = "compared" =>
        /\ KeysOf(cmpRes.NewIssues) = KeysOf(cmpCur) \ KeysOf(cmpPrev)
        /\ KeysOf(cmpRes.RemovedIssues) = KeysOf(cmpPrev) \ KeysOf(cmpCur)
        /\ DistinctKeys(cmpRes.NewIssues) /\ DistinctKeys(cmpRes.RemovedIssues)
        /\ Range(cmpRes.NewIssues) \subseteq Range(cmpCur)
        /\ Range(cmpRes.RemovedIssues) \subseteq Range(cmpPrev)
        /\ DistinctKeys(cmpCur) =>
             Range(cmpRes.NewIssues) = {i \in Range(cmpCur) : i.Key \notin KeysOf(cmpPrev)}
        /\ DistinctKeys(cmpPrev) =>
             Range(cmpRes.RemovedIssues) = {i \in Range(cmpPrev) : i.Key \notin KeysOf(cmpCur)}

C11_Witness ==
    /\ cmpPc = "compared"
    /\ cmpCur = <<X1b, X2>> /\ cmpPrev = <<X1, X3>>
    /\ cmpRes.NewIssues = <<X2>> /\ cmpRes.RemovedIssues = <<X3>>

\* The field changes the claim expects between two issues of one key: labels
\* are the list of labels, so no labels and an empty list of labels are equal.
ExpectedChanges(c, p) ==
    {IssueChange("summary", Text(p.Summary), Text(c.Summary)) : x \in {1} \cap
        (IF c.Summary # p.Summary THEN {1} ELSE {})}
    \cup {IssueChange("component", Text(p.Component), Text(c.Component)) : x \in {1} \cap
        (IF c.Component # p.Component THEN {1} ELSE {})}
    \cup {IssueChange("status", Text(p.Status), Text(c.Status)) : x \in {1} \cap
        (IF c.Status # p.Status THEN {1} ELSE {})}
    \cup {IssueChange("assignee", Text(p.Assignee), Text(c.Assignee)) : x \in {1} \cap
        (IF c.Assignee # p.Assignee THEN {1} ELSE {})}
    \cup {IssueChange("last_updated", FormatRFC3339(p.LastUpdated),
                      FormatRFC3339(c.LastUpdated)) : x \in {1} \cap
        (IF c.LastUpdated # p.LastUpdated THEN {1} ELSE {})}
    \cup {IssueChange("labels", StringsJoin(p.Labels), StringsJoin(c.Labels)) : x \in {1} \cap
        (IF c.Labels.elems # p.Labels.elems THEN {1} ELSE {})}

\* C12: for a key of both lists ChangedIssues holds exactly one change for
\* each field whose value differs, previous value as old and current value as
\* new, and the key is absent when no field differs.
C12_OneChangePerDifferingField ==
    cmpPc = "compared" =>
        \A k \in KeysOf(cmpCur) \cap KeysOf(cmpPrev) :
            LET expected == ExpectedChanges(IssueMap(cmpCur)[k], IssueMap(cmpPrev)[k])
            IN IF expected = {}
                 THEN k \notin DOMAIN cmpRes.ChangedIssues
                 ELSE /\ k \in DOMAIN cmpRes.ChangedIssues
                      /\ Range(cmpRes.ChangedIssues[k]) = expected
                      /\ Len(cmpRes.ChangedIssues[k]) = Cardinality(expected)

\* The same labels, each as often, in any order.
SameLabelsAnyOrder(a, b) ==
    /\ Len(a.elems) = Len(b.elems)
    /\ \A l \in Range(a.elems) \cup Range(b.elems) :
          Cardinality({i \in 1..Len(a.elems) : a.elems[i] = l})
            = Cardinality({i \in 1..Len(b.elems) : b.elems[i] = l})

\* C13: an issue whose labels are the same labels in another order has no
\* "labels" change.
C13_LabelOrderIgnored ==
    cmpPc = "compared" =>
        \A k \in KeysOf(cmpCur) \cap KeysOf(cmpPrev) :
            SameLabelsAnyOrder(IssueMap(cmpCur)[k].Labels, IssueMap(cmpPrev)[k].Labels) =>
                \/ k \notin DOMAIN cmpRes.ChangedIssues
                \/ \A i \in 1..Len(cmpRes.ChangedIssues[k]) :
                      cmpRes.ChangedIssues[k][i].Field # "labels"

\* C14: CompareQueries(A, A) has no new, no removed and no changed issue.
C14_CompareSelfEmpty ==
    (cmpPc = "compared" /\ cmpCur = cmpPrev) => ~HasChanges(cmpRes)

C14_Witness ==
    /\ cmpPc = "compared" /\ cmpCur = cmpPrev
    /\ Len(cmpCur) = 2 /\ DistinctKeys(cmpCur)

\* C15: the keys new in CompareQueries(A, B) are the keys removed in
\* CompareQueries(B, A), and the other way round.
C15_NewRemovedSymmetric ==
    cmpPc = "compared" =>
        /\ KeysOf(cmpRes.NewIssues) = KeysOf(cmpRev.RemovedIssues)
        /\ KeysOf(cmpRes.RemovedIssues) = KeysOf(cmpRev.NewIssues)

C15_Witness ==
    /\ cmpPc = "compared"
    /\ Len(cmpRes.NewIssues) > 0 /\ Len(cmpRes.RemovedIssues) > 0
    /\ Len(cmpRev.NewIssues) > 0 /\ Len(cmpRev.RemovedIssues) > 0
    /\ KeysOf(cmpCur) \cap KeysOf(cmpPrev) # {}

\* C16: after a successful watch the stored record carries the description
\* that was passed to it, and loading the record returns it.
C16_DescriptionStored ==
    (st[1].pc = "done" /\ st[1].kind = "watch" /\ Succeeded(st[1])) =>
        LET loaded == LoadQuery(files, st[1].name)
        IN /\ ~loaded.nil
           /\ RecordDescription(loaded.q) = st[1].desc

Absent(r) == r.nil /\ r.err = NoError

SameIssue(a, b) ==
    /\ a.Key = b.Key /\ a.Summary = b.Summary /\ a.Component = b.Component
    /\ a.Status = b.Status /\ a.Assignee = b.Assignee
    /\ a.LastUpdated = b.LastUpdated
    /\ a.Labels.elems = b.Labels.elems

C20_NamesAddressOwnFile ==
    /\ \A i \in {1, 2} :
          /\ ptPc[i] \notin {"off", "ready"} => ptPaths[i].dir = DataDir
          /\ ptPc[i] # "save failed"
          /\ ptPc[i] = "loaded" =>
                (~ptLoaded[i].nil /\ ptLoaded[i].q.Name = ptNames[i])
    /\ (ptPc[1] \notin {"off", "ready"} /\ ptPc[2] \notin {"off", "ready"}
          /\ ptNames[1] # ptNames[2]) => ptPaths[1] # ptPaths[2]

\* The names whose file holds a record that loads.
StoredRecords(fs) == {n \in FileNames : fs[n].exists /\ LoadQuery(fs, n).err = NoError}

C22_SaveFailureSurfaced ==
    \A p \in Procs :
        (st[p].pc = "done" /\ st[p].kind \in {"watch", "inspect"}) =>
            /\ (\E i \in 1..Len(st[p].calls) : st[p].calls[i] \in {"open:fail", "write:fail"})
                  => (st[p].err # NoError /\ st[p].result = NilResult)
            /\ st[p].err = NoError =>
                  (/\ LastCall(st[p]) = "write"
                   /\ \E i \in 1..Len(st[p].calls) : st[p].calls[i] = "search"
                   /\ files[st[p].queryInfo.Name] = File(Marshal(st[p].queryInfo))
                   /\ st[p].queryInfo.Issues = st[p].cur)

C22_Witness ==
    /\ st[1].pc = "done" /\ st[1].kind = "inspect"
    /\ LastCall(st[1]) = "write:fail"
    /\ Len(st[1].cur) > 0
    /\ st[1].err # NoError

\* C23: after a successful watch or inspect command the terminal shows a
\* table with one row for each current issue, followed by one row for each
\* removed issue; with no issue of either kind a message will do.
C23_TableShowsCurrentThenRemoved ==
    (st[1].pc = "done" /\ st[1].cli /\ st[1].kind \in {"watch", "inspect"}
        /\ st[1].err = NoError) =>
        LET current == st[1].cur
            removed == st[1].result.RemovedIssues
            rows == st[1].screen.rows
        IN /\ Len(current) + Len(removed) > 0 => st[1].screen.kind = "table"
           /\ Len(rows) = Len(current) + Len(removed)
           /\ \E s \in ListPermutations(current) :
                 \A i \in 1..Len(current) : rows[i] = issueToRow(s[i])
           /\ \A i \in 1..Len(removed) : rows[Len(current) + i] = issueToRow(removed[i])

\* The keys the result the presenter was given classifies.
UiNewKeys == KeysOf(uiGiven.NewIssues)

UiRemovedKeys == KeysOf(uiGiven.RemovedIssues)

UiChangedKeys == DOMAIN uiGiven.ChangedIssues

\* C24: the panel of the row under the cursor lists all the changes of the
\* row's issue when its key is in the changed map, and says "unchanged" when
\* the key is neither new, removed nor changed.
C24_PanelShowsClassification ==
    (uiPc \in {"running", "quit"} /\ CursorInRange(uiModel)) =>
        LET key == uiModel.displayedIssues[uiModel.cursor + 1].Key
        IN /\ key \in UiChangedKeys =>
                 (/\ uiView.panel.status = "CHANGED ITEM"
                  /\ uiView.panel.changes = uiGiven.ChangedIssues[key])
           /\ key \notin UiNewKeys \cup UiRemovedKeys \cup UiChangedKeys =>
                 uiView.panel = Panel("UNCHANGED ITEM", <<>>)

C24_Witness ==
    /\ uiPc = "running"
    /\ uiModel.cursor = 1
    /\ uiView.panel.status = "CHANGED ITEM"
    /\ Len(uiView.panel.changes) = 2
    /\ UiNewKeys # {} /\ UiRemovedKeys # {}

\* C25: no event of the presenter changes the result or the record it was
\* constructed with.
C25_PresenterKeepsResult ==
    uiPc \in {"running", "quit"} => uiModel.queryResult = uiGiven

C25_Witness ==
    /\ uiPc = "quit"
    /\ uiModel.cursor > 0 /\ uiModel.width = 40
    /\ uiModel.queryResult.Query.Issues = <<X1b, X2>>
    /\ uiModel.displayedIssues[1] = X2

\* C26: the rows of the current issues come in the order of their
\* last-updated instants, the most recent first.
C26_RowsByLastUpdatedDesc ==
    uiPc \in {"running", "quit"} =>
        LET n == Len(uiGiven.Query.Issues)
        IN /\ Len(uiModel.displayedIssues) >= n /\ Len(uiModel.rows) >= n
           /\ \A i \in 1..n : uiModel.rows[i] = issueToRow(uiModel.displayedIssues[i])
           /\ SubSeq(uiModel.displayedIssues, 1, n) \in ListPermutations(uiGiven.Query.Issues)
           /\ \A i, j \in 1..n :
                 i < j => uiModel.displayedIssues[i].LastUpdated
                            >= uiModel.displayedIssues[j].LastUpdated

C26_Witness ==
    /\ uiPc = "running"
    /\ uiGiven.Query.Issues = <<X1, X3>>
    /\ uiModel.displayedIssues = <<X3, X1>>

\* C27: determineProject returns an error exactly when no project was
\* provided and none can be derived (no component, or a component without a
\* mapping); otherwise the provided project when there is no mapping or the
\* mapping equals it, and the mapped project when none was provided.
C27_DetermineProject ==
    (mpPc = "done" /\ mpOut.name = "determineProject") =>
        LET provided == mpArgs.providedProject
            mapped == IF mpArgs.componentName = "" THEN ""
                      ELSE MapGet(mpOut.before.ComponentToProject, mpArgs.componentName)
        IN /\ mpOut.err # NoError <=> (provided = "" /\ mapped = "")
           /\ (provided # "" /\ (mapped = "" \/ mapped = provided)) =>
                 (mpOut.err = NoError /\ mpOut.project = provided)
           /\ (provided = "" /\ mapped # "") =>
                 (mpOut.err = NoError /\ mpOut.project = mapped)
           /\ mpMappings = mpOut.before

C27_Witness ==
    /\ mpPc = "done" /\ mpOut.name = "determineProject"
    /\ mpArgs.componentName = "c1" /\ mpArgs.providedProject = ""
    /\ mpOut.project = "P2" /\ mpOut.err = NoError

\* C28: determineTaskType returns the mapped type only when the project has
\* a mapping and the provided type is the default, Spike; in every other case
\* it returns the provided type.
C28_DetermineTaskType ==
    (mpPc = "done" /\ mpOut.name = "determineTaskType") =>
        LET mapped == MapGet(mpOut.before.ProjectToTaskType, mpArgs.project)
        IN /\ IF mapped # "" /\ mpArgs.taskType = "Spike"
                THEN mpOut.taskType = mapped
                ELSE mpOut.taskType = mpArgs.taskType
           /\ mpMappings = mpOut.before

C28_Witness ==
    /\ mpPc = "done" /\ mpOut.name = "determineTaskType"
    /\ mpArgs.taskType = "Spike"
    /\ mpArgs.project \in DOMAIN mpOut.before.ProjectToTaskType
    /\ mpOut.taskType = "Task"

\* C29: saveTaskTypeMappingIfNeeded sets the project's type mapping to the
\* final type only when the final type is not the default and the project has
\* no mapping yet; otherwise the mappings are as they were.
C29_SaveTaskTypeMapping ==
    (mpPc = "done" /\ mpOut.name = "saveTaskTypeMappingIfNeeded") =>
        LET old == mpOut.before.ProjectToTaskType
            new == mpMappings.ProjectToTaskType
        IN /\ mpMappings.ComponentToProject = mpOut.before.ComponentToProject
           /\ IF mpArgs.taskType # "Spike" /\ mpArgs.project \notin DOMAIN old
                THEN /\ DOMAIN new = DOMAIN old \cup {mpArgs.project}
                     /\ new[mpArgs.project] = mpArgs.taskType
                     /\ \A k \in DOMAIN old : new[k] = old[k]
                ELSE new = old

C29_Witness ==
    /\ mpPc = "done" /\ mpOut.name = "saveTaskTypeMappingIfNeeded"
    /\ mpArgs.taskType = "Task"
    /\ DOMAIN mpOut.before.ProjectToTaskType = {"P2"}
    /\ mpArgs.project = "P1"
    /\ mpMappings.ProjectToTaskType = [k \in {"P1", "P2"} |->
            IF k = "P1" THEN "Task" ELSE mpOut.before.ProjectToTaskType["P2"]]

\* C30: saveComponentMappingIfNeeded leaves the mappings as they were when
\* the component is empty, when no project was provided, or when the
\* component's mapping equals the final project; it sets the component's
\* mapping to the final project when the component has no mapping and a
\* project was provided.
C30_SaveComponentMapping ==
    (mpPc = "done" /\ mpOut.name = "saveComponentMappingIfNeeded") =>
        LET old == mpOut.before.ComponentToProject
            new == mpMappings.ComponentToProject
            c == mpArgs.componentName
        IN /\ mpMappings.ProjectToTaskType = mpOut.before.ProjectToTaskType
           /\ (c = "" \/ mpArgs.providedProject = "" \/ MapGet(old, c) = mpArgs.project)
                 => new = old
           /\ (c # "" /\ mpArgs.providedProject # "" /\ c \notin DOMAIN old)
                 => /\ DOMAIN new = DOMAIN old \cup {c}
                    /\ new[c] = mpArgs.project
                    /\ \A k \in DOMAIN old : new[k] = old[k]

C30_Witness ==
    /\ mpPc = "done" /\ mpOut.name = "saveComponentMappingIfNeeded"
    /\ mpArgs.componentName = "c1" /\ mpArgs.providedProject = "P1"
    /\ mpArgs.project = "P2"
    /\ DOMAIN mpOut.before.ComponentToProject = {"c2"}
    /\ mpMappings.ComponentToProject["c1"] = "P2"

CallsOf(s, names) == {i \in 1..Len(s.calls) : s.calls[i] \in names}

\* C31: in WatchQuery the validation comes first: the first call of every
\* WatchQuery is the validation, and when it fails nothing else is called (no
\* search, no read and no write of the store) and the data directory is what
\* it was.
C31_ValidationFirst ==
    (st[1].kind = "watch" /\ Len(st[1].calls) > 0) =>
        /\ st[1].calls[1] \in {"validate", "validate:fail"}
        /\ st[1].calls[1] = "validate:fail" =>
              /\ st[1].calls = <<"validate:fail">>
              /\ st[1].pc = "done" /\ st[1].err # NoError
              /\ files = st[1].before

C31_Witness ==
    /\ st[1].kind = "watch" /\ st[1].calls = <<"validate:fail">>
    /\ st[1].before[st[1].name].exists
    /\ Len(st[1].before[st[1].name].data) > 3

\* C32: one WatchQuery or InspectQuery searches at most once and calls
\* SaveQuery (its open and its write) at most once; a failed search, open or
\* write is the last call of the command, which ends with an error.
C32_NoRetries ==
    st[1].kind \in {"watch", "inspect"} =>
        /\ Cardinality(CallsOf(st[1], {"search", "search:fail"})) <= 1
        /\ Cardinality(CallsOf(st[1], {"open", "open:fail"})) <= 1
        /\ Cardinality(CallsOf(st[1], {"write", "write:fail"})) <= 1
        /\ \A i \in CallsOf(st[1], {"search:fail", "open:fail", "write:fail"}) :
              /\ i = Len(st[1].calls)
              /\ st[1].pc = "done" /\ st[1].err # NoError

C32_Witness ==
    /\ st[1].kind = "inspect" /\ st[1].pc = "done"
    /\ LastCall(st[1]) = "write:fail"
    /\ CallsOf(st[1], {"search"}) # {}

\* C33: the previous list a successful WatchQuery or InspectQuery compares
\* with is the list the latest earlier successful WatchQuery or InspectQuery
\* of the name saved, or empty when there was none or the name was deleted
\* since; commands that failed in between do not count.
C33_BaselineIsLastPersisted ==
    (Succeeded(st[1]) /\ st[1].kind \in {"watch", "inspect"}) =>
        PreviousIssues(st[1].existing) = persisted[st[1].name]

\* C34: every change CompareQueries reports has an old text that differs
\* from its new text, the last_updated change (rendered to the second) and
\* the labels change (the labels joined with ", ") included.
C34_ChangeTextsDiffer ==
    cmpPc = "compared" =>
        \A k \in DOMAIN cmpRes.ChangedIssues :
            \A i \in 1..Len(cmpRes.ChangedIssues[k]) :
                cmpRes.ChangedIssues[k][i].OldValue # cmpRes.ChangedIssues[k][i].NewValue

\* C35: a listing that runs beside a deleting process never crashes: a record
\* deleted between the directory listing and its load is skipped, and the
\* records that were there all along are in the listing returned.
C35_ListSurvivesDelete ==
    st[1].kind = "list" =>
        /\ st[1].pc # "crashed"
        /\ st[1].pc = "done" =>
              /\ st[1].err = NoError
              /\ \A n \in Names :
                    (/\ st[1].before[n].exists /\ files[n] = st[1].before[n]
                     /\ CompleteDoc(files[n].data)) =>
                        \E i \in 1..Len(st[1].listing) :
                            st[1].listing[i] = QueryListItem(LoadQuery(files, n).q)

\* C36: a WatchQuery or InspectQuery of a name whose file exists and does
\* not parse ends with an error, searches nothing and leaves the data
\* directory as it was.
C36_UnparseableRecordFails ==
    \A p \in Procs :
        (/\ st[p].pc = "done" /\ st[p].kind \in {"watch", "inspect"}
         /\ st[p].before[st[p].name].exists
         /\ Unmarshal(st[p].before[st[p].name].data).err # NoError
         /\ CallsOf(st[p], {"validate:fail"}) = {}) =>
            /\ st[p].err = "failed to load query"
            /\ CallsOf(st[p], {"search", "search:fail", "open", "open:fail",
                               "write", "write:fail"}) = {}
            /\ files = st[p].before

C36_Witness ==
    /\ st[1].pc = "done" /\ st[1].kind = "watch"
    /\ st[1].before["n1"].exists
    /\ Unmarshal(st[1].before["n1"].data).err # NoError
    /\ Len(st[1].before["n1"].data) > 2
    /\ LastCall(st[1]) = "read"

\* C37: the displayed issues and the rows of the table have the same length
\* and the same order, and after every key and resize event the summary line
\* and the status panel describe the issue of the row under the cursor.
C37_RowsMatchDisplayedIssues ==
    uiPc \in {"running", "quit"} =>
        LET m == uiModel
        IN /\ Len(m.rows) = Len(m.displayedIssues)
           /\ \A i \in 1..Len(m.rows) : m.rows[i] = issueToRow(m.displayedIssues[i])
           /\ CursorInRange(m)
           /\ \E issue \in Range(uiGiven.Query.Issues) \cup Range(uiGiven.RemovedIssues) :
                 /\ m.rows[m.cursor + 1] = issueToRow(issue)
                 /\ uiView.summary = Text(issue.Summary)
                 /\ uiView.panel =
                       IF issue.Key \in UiNewKeys THEN Panel("NEW ITEM", <<>>)
                       ELSE IF issue.Key \in UiChangedKeys
                         THEN Panel("CHANGED ITEM", uiGiven.ChangedIssues[issue.Key])
                       ELSE IF issue.Key \in UiRemovedKeys THEN Panel("REMOVED ITEM", <<>>)
                       ELSE Panel("UNCHANGED ITEM", <<>>)

C37_Witness ==
    /\ uiPc = "running"
    /\ uiModel.width = 40
    /\ Len(uiModel.rows) = 3
    /\ uiModel.cursor = 2
    /\ uiView.panel.status = "REMOVED ITEM"
    /\ uiView.summary = Text("s3")

====
